---------------------------- MODULE Spec2Model ----------------------------
(***************************************************************************)
(* Code execution backend (c-runner-backend.js): the request handler       *)
(* handleCodeExecution, executeCode, executeWithTimeout, cleanup and the   *)
(* per-language table languageConfigs; its rate limiting middleware; its   *)
(* Socket.IO layer (onlineUsers, activeRooms).  Collaboration server       *)
(* (part_000): the rooms and pendingInvites Maps and the send-invite,      *)
(* accept-invite, join-room, leave-room and disconnect handlers.           *)
(*                                                                         *)
(* Texts (source code, process output, messages) are sequences of tokens:  *)
(* the empty string is <<>>, concatenation is \o, and String.includes of a *)
(* marker is membership of the marker token.  A value thrown or rejected   *)
(* is a record [type, text]: type "string" for a rejected string, "Error"  *)
(* for an Error object whose message is text.                              *)
(***************************************************************************)
EXTENDS Naturals, Integers, Sequences, FiniteSets, TLC

\* ------------------------------------------------------------------ bounds
\* longest source text, in statements
MaxStmts == 3

\* ------------------------------------------------------- sequence helpers
Range(s) == {s[i] : i \in 1..Len(s)}

RECURSIVE SeqFilter(_, _)
SeqFilter(s, keep) ==
    IF s = <<>> THEN <<>>
    ELSE IF Head(s) \in keep THEN <<Head(s)>> \o SeqFilter(Tail(s), keep)
         ELSE SeqFilter(Tail(s), keep)

\* [...new Set(s)]: first occurrences, insertion order
RECURSIVE Dedupe(_)
Dedupe(s) ==
    IF s = <<>> THEN <<>>
    ELSE LET d == Dedupe(SubSeq(s, 1, Len(s) - 1))
         IN  IF s[Len(s)] \in Range(d) THEN d ELSE Append(d, s[Len(s)])

\* Array.join(sep) over an array of texts
RECURSIVE Join(_, _)
Join(arr, sep) ==
    IF arr = <<>> THEN <<>>
    ELSE IF Len(arr) = 1 THEN arr[1]
         ELSE arr[1] \o <<sep>> \o Join(Tail(arr), sep)

\* number of occurrences of token t in text s
RECURSIVE Count(_, _)
Count(s, t) ==
    IF s = <<>> THEN 0
    ELSE (IF Head(s) = t THEN 1 ELSE 0) + Count(Tail(s), t)

SeqsUpTo(S, n) == UNION {[1..k -> S] : k \in 0..n}

\* String.prototype.includes(marker)
Includes(text, marker) == marker \in Range(text)

\* --------------------------------------------------------- SECURITY_CONFIG
maxExecutionTime   == 10000
compilationTimeout == 5000
executionTimeout   == 3000
installTimeout     == 60000
chmodTimeout       == 1000

\* ------------------------------------------------------------- languages
Languages == {"python", "javascript", "java", "cpp", "c"}

\* a language identifier outside languageConfigs
OtherLanguages == {"ruby"}

Platforms == {"win32", "linux"}

\* request body without a code field
Absent == <<[kind |-> "undefined"]>>

\* -------------------------------------------------------- source statements
\* Statements a source text is made of, per language.  An import carries the
\* dotted path as a sequence of segments; an include carries its delimiter.
PythonStmts ==
    { [kind |-> "import", path |-> <<"os", "path">>],
      [kind |-> "from",   path |-> <<"numpy", "linalg">>],
      [kind |-> "import", path |-> <<"requests">>] }

\* scope is "" for an unscoped module; a relative path starts with "."
JavascriptStmts ==
    { [kind |-> "require", scope |-> "", path |-> <<"fs">>],
      [kind |-> "require", scope |-> "", path |-> <<"lodash", "fp">>],
      [kind |-> "import",  scope |-> "", path |-> <<"axios">>] }

JavaStmts ==
    { [kind |-> "import", path |-> <<"java", "util", "Scanner">>],
      [kind |-> "import", path |-> <<"org", "apache", "Lang">>],
      [kind |-> "publicclass", name |-> "Main"],
      [kind |-> "class", name |-> "Helper"] }

CppStmts ==
    { [kind |-> "include", delim |-> "angle", header |-> "iostream"],
      [kind |-> "include", delim |-> "angle", header |-> "boost/asio.hpp"] }

CStmts ==
    { [kind |-> "include", delim |-> "angle", header |-> "stdio.h"],
      [kind |-> "include", delim |-> "quote", header |-> "curl/curl.h"] }

StmtsOf(language) ==
    CASE language = "python"     -> PythonStmts
      [] language = "javascript" -> JavascriptStmts
      [] language = "java"       -> JavaStmts
      [] language = "cpp"        -> CppStmts
      [] language = "c"          -> CStmts
      [] OTHER                   -> {[kind |-> "text"]}

\* the code field of a request: absent, empty, or up to MaxStmts statements
CodesOf(language) == {Absent} \cup SeqsUpTo(StmtsOf(language), MaxStmts)

\* ---------------------------------------------- languageConfigs: allowlists
pythonStdLibs ==
    { "os", "sys", "math", "random", "time", "datetime", "string", "re",
      "json", "collections", "itertools", "functools", "typing", "pathlib",
      "subprocess", "threading", "multiprocessing", "asyncio", "urllib",
      "http", "socket", "email", "xml", "html", "csv", "sqlite3", "pickle",
      "copy", "hashlib", "logging", "argparse", "configparser", "unittest",
      "decimal", "statistics", "uuid", "base64", "contextlib", "dataclasses",
      "enum", "io", "glob", "shutil", "inspect", "ast", "traceback", "gc",
      "weakref", "types", "warnings", "platform", "tempfile", "zipfile",
      "tarfile", "gzip", "bz2", "lzma", "struct", "array", "heapq", "bisect",
      "calendar", "textwrap", "gettext", "locale", "signal", "mmap", "queue",
      "sched", "select", "selectors", "ssl", "ftplib", "poplib", "imaplib",
      "nntplib", "smtplib", "telnetlib", "hmac", "secrets", "urllib3",
      "getpass", "curses", "concurrent", "venv", "doctest", "trace",
      "numbers", "abc", "fnmatch", "fileinput", "shelve", "stat", "asyncore",
      "asynchat", "webbrowser", "pdb", "distutils", "setuptools" }

javascriptStdModules ==
    { "fs", "path", "http", "https", "os", "crypto", "events", "stream",
      "buffer", "util", "url", "querystring", "zlib", "readline", "net",
      "dgram", "dns", "tls", "cluster", "child_process", "worker_threads",
      "assert", "console", "process", "timers", "perf_hooks", "v8",
      "async_hooks", "module" }

\* every entry is a dotted package name
javaStdPackages ==
    { "java.lang", "java.io", "java.util", "java.net", "java.text",
      "java.math", "java.time", "java.sql", "java.security", "java.nio",
      "java.awt", "javax.swing", "java.beans", "java.rmi", "javax.crypto",
      "javax.imageio", "javax.sound", "javax.xml", "javax.sql",
      "javax.naming", "javax.management", "javax.script", "javax.tools",
      "javax.annotation", "javax.print",
      "jakarta.servlet", "jakarta.ejb", "jakarta.persistence",
      "jakarta.ws.rs", "jakarta.mail", "jakarta.json", "jakarta.validation",
      "jakarta.batch", "jakarta.faces", "jakarta.enterprise",
      "jakarta.interceptor",
      "javafx.application", "javafx.scene", "javafx.stage", "javafx.fxml",
      "javafx.controls", "javafx.graphics", "javafx.media", "javafx.web",
      "org.junit", "org.springframework", "com.google.gson",
      "com.fasterxml.jackson" }

cppStdHeaders ==
    { "iostream", "string", "vector", "map", "set", "queue", "stack", "deque",
      "list", "array", "algorithm", "memory", "functional", "chrono",
      "thread", "mutex", "condition_variable", "future", "random", "regex",
      "filesystem", "iterator", "numeric", "utility", "tuple", "type_traits",
      "exception", "stdexcept", "cassert", "cstdlib", "cstring", "cctype",
      "cmath", "ctime", "cstdio", "fstream", "sstream", "iomanip", "optional",
      "variant", "any", "compare", "version", "source_location", "complex",
      "ratio", "cfloat", "climits", "numbers", "valarray", "bit", "cstddef",
      "cwchar", "cuchar", "cwctype", "clocale", "csetjmp", "csignal",
      "shared_mutex", "atomic", "barrier", "latch", "semaphore",
      "system_error", "charconv", "format", "memory_resource", "execution",
      "ranges", "span", "coroutine", "concepts", "string_view",
      "u8string_view", "u16string_view", "u32string_view", "syncstream",
      "stacktrace", "expected", "generator", "mdspan", "print", "spanstream",
      "stdfloat" }

cStdHeaders ==
    { "stdio.h", "stdlib.h", "string.h", "math.h", "time.h", "ctype.h",
      "stdbool.h", "stdint.h", "float.h", "limits.h", "assert.h", "errno.h",
      "locale.h", "setjmp.h", "signal.h", "stdarg.h", "stddef.h",
      "sys/types.h", "unistd.h" }

\* --------------------------------------------------------- thrown values
ThrownString(text) == [type |-> "string", text |-> text]
ThrownError(text)  == [type |-> "Error",  text |-> text]

\* `${err.message}` inside a template literal: a string has no message
MessageInTemplate(err) ==
    IF err.type = "Error" THEN err.text ELSE <<"undefined">>

\* result of a detection: the array returned, or the Error thrown
Returned(arr) == [threw |-> FALSE, value |-> arr, error |-> ThrownError(<<>>)]
Threw(err)    == [threw |-> TRUE,  value |-> <<>>, error |-> err]

\* ------------------------------------------ languageConfigs: detection
\* the array a regex /g match yields: the statements of the given kinds
RECURSIVE Matches(_, _)
Matches(code, kinds) ==
    IF code = <<>> THEN <<>>
    ELSE IF Head(code).kind \in kinds
         THEN <<Head(code)>> \o Matches(Tail(code), kinds)
         ELSE Matches(Tail(code), kinds)

SeqMap(s, Op(_)) == [i \in 1..Len(s) |-> Op(s[i])]

FirstSegment(stmt) == stmt.path[1]

pythonDetectDependencies(code) ==
    LET imports  == Matches(code, {"import", "from"})
        packages == SeqMap(imports, FirstSegment)
    IN  Returned(SeqFilter(Dedupe(packages),
                           Range(packages) \ pythonStdLibs))

\* the quoted module specifier of a require/import
JsSpecifierIsBuiltin(stmt) ==
    stmt.scope = "" /\ Len(stmt.path) = 1 /\ stmt.path[1] \in javascriptStdModules

JsPackageName(stmt) ==
    IF stmt.scope # "" THEN stmt.scope ELSE stmt.path[1]

javascriptDetectDependencies(code) ==
    LET imports == Matches(code, {"require", "import"})
        kept    == SeqFilter(imports,
                     {s \in Range(imports) :
                        ~JsSpecifierIsBuiltin(s) /\ s.path[1] # "."})
    IN  Returned(Dedupe(SeqMap(kept, JsPackageName)))

javaDetectDependencies(code) ==
    LET imports  == Matches(code, {"import"})
        packages == SeqMap(imports, FirstSegment)
    IN  Returned(SeqFilter(packages, Range(packages) \ javaStdPackages))

HeaderOf(stmt) == stmt.header

UnsupportedHeadersError(headers, libs) ==
    ThrownError(<<"Unsupported headers:">> \o Join(SeqMap(headers, LAMBDA h : <<h>>), ", ")
                \o <<libs>>)

cppDetectDependencies(code) ==
    LET includes == SeqFilter(Matches(code, {"include"}),
                      {s \in Range(Matches(code, {"include"})) : s.delim = "angle"})
        headers  == SeqMap(includes, HeaderOf)
        unsupportedHeaders == SeqFilter(headers, Range(headers) \ cppStdHeaders)
    IN  IF Len(unsupportedHeaders) > 0
        THEN Threw(UnsupportedHeadersError(unsupportedHeaders,
                     "Only standard C++ libraries are supported."))
        ELSE Returned(<<>>)

\* a detection that hands the non-standard headers to the install loop
cDetectDependenciesListing(code) ==
    LET headers == SeqMap(Matches(code, {"include"}), HeaderOf)
    IN  Returned(SeqFilter(headers, Range(headers) \ cStdHeaders))

\* c.detectDependencies: throws on a non-standard header, else returns []
cDetectDependencies(code) ==
    LET includes == Matches(code, {"include"})
        headers  == SeqMap(includes, HeaderOf)
        unsupportedHeaders == SeqFilter(headers, Range(headers) \ cStdHeaders)
    IN  IF Len(unsupportedHeaders) > 0
        THEN Threw(UnsupportedHeadersError(unsupportedHeaders,
                     "Only standard C libraries are supported."))
        ELSE Returned(<<>>)

detectDependencies(language, code) ==
    CASE language = "python"     -> pythonDetectDependencies(code)
      [] language = "javascript" -> javascriptDetectDependencies(code)
      [] language = "java"       -> javaDetectDependencies(code)
      [] language = "cpp"        -> cppDetectDependencies(code)
      [] language = "c"          -> cDetectDependencies(code)

\* a detectClassName that falls back to any declared class, then to Main
detectClassNameWithFallback(code) ==
    LET classMatch == Matches(code, {"publicclass"})
        anyClass   == Matches(code, {"class"})
    IN  IF classMatch # <<>> THEN Returned(<<classMatch[1].name>>)
        ELSE IF anyClass # <<>> THEN Returned(<<anyClass[1].name>>)
        ELSE Returned(<<"Main">>)

\* java.detectClassName: first `public class X`, else throws
detectClassName(code) ==
    LET classMatch == Matches(code, {"publicclass"})
    IN  IF classMatch = <<>>
        THEN Threw(ThrownError(<<"No public class found in the Java code">>))
        ELSE Returned(<<classMatch[1].name>>)


\* ------------------------------------------------------------ file paths
\* path.join(tempDir, ...): a file of the shared temp directory
NoFile == [random |-> 0, base |-> "", ext |-> ""]

\* getTempFile(ext): temp_<16 hex digits of crypto.randomBytes(8)>.<ext>;
\* random is the value drawn (64 bits: taken to be fresh on every call)
getTempFile(random, ext) == [random |-> random, base |-> "temp_", ext |-> ext]

\* path.join(dirname, `${className}.java`) and `${className}.class`
ClassFile(className, ext) == [random |-> 0, base |-> className, ext |-> ext]

\* the .class files javac writes for a source text: one per declared class
CompiledClasses(code) ==
    {ClassFile(s.name, "class") : s \in Range(Matches(code, {"publicclass", "class"}))}

\* ------------------------------------------------------ external processes
StdoutTexts == {<<>>, <<"out">>}
StderrTexts == {<<>>, <<"warning:">>, <<"error:">>}
ExitStatuses == {"exit0", "nonzero", "timeout"}

\* what child_process.exec hands to its callback
ProcOutcomes == [status : ExitStatuses, stdout : StdoutTexts, stderr : StderrTexts]

\* the unlinkSync results cleanup distinguishes
UnlinkOutcomes == {"removed", "EPERM", "failed"}

\* exec's error.message: "Command failed: <command>\n<stderr>"
ExecErrorMessage(o) == <<"Command failed">> \o o.stderr

\* a runner that reports only a killed command as an error
ExecFailedOnlyOnTimeout(o) == o.status = "timeout"

\* executeWithTimeout: `if (error)` of the exec callback
ExecFailed(o) == o.status # "exit0"

\* a runner that prefers stdout: reject(stdout || stderr || error.message)
RejectValueStdoutFirst(o) ==
    ThrownString(IF o.stdout # <<>> THEN o.stdout
                 ELSE IF o.stderr # <<>> THEN o.stderr
                 ELSE ExecErrorMessage(o))

\* executeWithTimeout: reject(stderr || stdout || error.message)
RejectValue(o) ==
    ThrownString(IF o.stderr # <<>> THEN o.stderr
                 ELSE IF o.stdout # <<>> THEN o.stdout
                 ELSE ExecErrorMessage(o))

\* executeWithTimeout: resolve(stdout)
ResolveValue(o) == o.stdout

\* executeWithTimeout(command, timeout): how the promise settles
executeWithTimeout(o) ==
    IF ExecFailed(o)
    THEN [rejected |-> TRUE,  value |-> RejectValue(o).text]
    ELSE [rejected |-> FALSE, value |-> ResolveValue(o)]

\* a callback that returns without settling when the command was killed
SettlesUnlessKilled(o) == o.status # "timeout"

\* executeWithTimeout: both branches of the exec callback settle the promise
Settles(o) == TRUE

\* exec(command, { timeout, killSignal }, callback): what is written to the
\* standard input of the child
StdinWritten(command) == <<>>

\* ------------------------------------------------------------ the state
VARIABLES
    platform,      \* process.platform
    fs,            \* the files that exist in tempDir
    randomCount,   \* number of random names drawn so far
    retryTimers,   \* pending setTimeout callbacks of cleanup: [req, file]
    handler,       \* per request: the frame of handleCodeExecution/executeCode
    procs,         \* per request: the commands spawned, with their exit status
    lastExit,      \* per request: the outcome of the last command that exited
    responses,     \* per request: what was sent through res
    escaped,       \* per request: an exception left handleCodeExecution
    cleanupLog,    \* per request: the cleanup calls made, each a list of results
    created,       \* per request: the files created on its behalf
    requestBody,   \* per request: req.body as the endpoint received it
    settled        \* per request: how the last executeWithTimeout promise settled

\* the state of code execution
execVars == <<platform, fs, randomCount, retryTimers, handler, procs, lastExit,
              responses, escaped, cleanupLog, created, requestBody, settled>>

VARIABLES
    now            \* Date.now(), in ms since the server started

\* the rate limiting middleware of the execution backend
VARIABLES
    requestCounts, \* per client ip: the entry of the Map, or NoCount
    passLog,       \* per client ip: the calls of next(), as [at, n] per instant
    lastAnswer     \* per client ip: what the middleware did with the last request

limiterVars == <<requestCounts, passLog, lastAnswer>>

\* the Socket.IO layer of the execution backend
VARIABLES
    sockets,       \* per socket id: "new", "connected" or "disconnected"
    onlineUsers,   \* the Map userId -> {socketId, userName}, in insertion order
    activeRooms,   \* per room id: the entry of the Map, or NoRoom
    emitted,       \* the events the last handler emitted
    lastUpdate     \* per room and language: the code of the last code-update
                   \* applied since the room entered activeRooms

socketVars == <<sockets, onlineUsers, activeRooms, emitted, lastUpdate>>

\* the collaboration server
VARIABLES
    collabSockets, \* per socket id: "new", "connected" or "disconnected"
    rooms,         \* per room id: the entry of the Map rooms, or NoRoom
    pendingInvites,\* the Map inviteId -> invite, in insertion order
    collabEmitted, \* the events the last handler emitted
    leftRoom,      \* per room id: the sockets whose last event for the room
                   \* was leave-room
    inviteLog      \* the invites send-invite created and the invite-accepted
                   \* events accept-invite emitted, in order

collabVars == <<collabSockets, rooms, pendingInvites, collabEmitted, leftRoom,
                inviteLog>>

vars == <<execVars, now, limiterVars, socketVars, collabVars>>

\* what the code execution handlers leave alone
outsideExec == <<now, limiterVars, socketVars, collabVars>>

Requests == {"r1", "r2"}

NoOutcome == [status |-> "none", stdout |-> <<>>, stderr |-> <<>>]

\* a body without an input field
NoInput == <<>>
NoBody  == [code |-> <<>>, input |-> NoInput]
NotSettled == [rejected |-> FALSE, value |-> <<>>]

IdleFrame ==
    [ pc |-> "idle", language |-> "", code |-> <<>>, filename |-> NoFile,
      filesToCleanup |-> <<>>, outputExe |-> NoFile, direct |-> FALSE,
      dependencies |-> <<>>, i |-> 0, errors |-> <<>> ]

\* ----------------------------------------------------- rate limiter: data
\* the clients of the execution backend, by req.ip
Clients == {"10.0.0.1"}

\* `if (count.count >= 30)` and `if (now - count.timestamp > 60000)`
maxRequestsPerWindow == 30
windowMs == 60000

\* requestCounts.get(ip) of an ip that was never set
NoCount == [count |-> 0, timestamp |-> 0 - 1]

\* the clock moves on by one of these between two events, up to MaxClock
TickSteps == {30000, 30001}
MaxClock == 60001

\* ------------------------------------------------------ socket layer: data
SocketIds == {"s1", "s2"}
UserIds   == {"u1", "u2"}
UserNames == {"ann"}
RoomIds   == {"roomA", "roomB"}

\* the keys of currentCode and the editor texts sent by clients
CodeLanguages == {"python", "javascript"}
CodeTexts == {"print(1)", "print(2)"}

\* the value of a property that was never assigned
Undefined == "undefined"

\* the initialCode of a join-room payload: absent (the default {}), or the
\* starter code of the problem
NoInitialCode == [l \in CodeLanguages |-> Undefined]
InitialCodes ==
    {NoInitialCode, [l \in CodeLanguages |-> IF l = "python" THEN "pass" ELSE Undefined]}

\* activeRooms.get(roomId) of a room that is not in the Map
NoRoom == [present |-> FALSE, users |-> <<>>, problemTitle |-> Undefined,
           currentCode |-> NoInitialCode]

\* longest users array of a room
MaxRoomUsers == 2

Init ==
    /\ now = 0
    /\ requestCounts = [ip \in Clients |-> NoCount]
    /\ passLog = [ip \in Clients |-> <<>>]
    /\ lastAnswer = [ip \in Clients |-> "none"]
    /\ sockets = [s \in SocketIds |-> "new"]
    /\ onlineUsers = <<>>
    /\ activeRooms = [room \in RoomIds |-> NoRoom]
    /\ emitted = <<>>
    /\ lastUpdate = [room \in RoomIds |-> NoInitialCode]
    /\ collabSockets = [s \in SocketIds |-> "new"]
    /\ rooms = <<>>
    /\ pendingInvites = <<>>
    /\ inviteLog = <<>>
    /\ collabEmitted = <<>>
    /\ leftRoom = {}
    /\ platform \in Platforms
    /\ fs = {}
    /\ randomCount = 0
    /\ retryTimers = {}
    /\ handler = [r \in Requests |-> IdleFrame]
    /\ procs = [r \in Requests |-> <<>>]
    /\ lastExit = [r \in Requests |-> NoOutcome]
    /\ responses = [r \in Requests |-> <<>>]
    /\ escaped = [r \in Requests |-> FALSE]
    /\ cleanupLog = [r \in Requests |-> <<>>]
    /\ created = [r \in Requests |-> {}]
    /\ requestBody = [r \in Requests |-> NoBody]
    /\ settled = [r \in Requests |-> NotSettled]


\* ------------------------------------------------- responses and catches
Response(status, field, body) == [status |-> status, field |-> field, body |-> body]

UnknownError == <<"An unknown error occurred.">>

\* handleCodeExecution, catch: res.json({ output: error.message || "An unknown error occurred." })
CatchResponse(err) ==
    Response(200, "output",
             IF err.type = "Error" /\ err.text # <<>> THEN err.text ELSE UnknownError)

\* a catch that handles Error objects only and rethrows anything else
HandlerCatchesErrorObjects(err) == err.type = "Error"

\* handleCodeExecution: the try block has a catch for every thrown value
HandlerCatches(err) == TRUE

\* executeCode, catch of Step 1: throw new Error(`Dependency Error: ${error.message}`)
DependencyError(err) == ThrownError(<<"Dependency Error:">> \o MessageInTemplate(err))

\* executeCode, catch of the compile+run try: the "error:" heuristic
ClassifyError(err) ==
    IF err.type # "string"
    THEN ThrownError(<<"error.includes is not a function">>)
    ELSE IF Includes(err.text, "error:")
         THEN ThrownError(<<"Compilation Error:">> \o err.text)
         ELSE ThrownError(<<"Runtime Error:">> \o err.text)

\* a check `code === undefined` in place of `!code`
CodeMissingUndefinedOnly(code) == code = Absent

\* handleCodeExecution: `if (!code)`
CodeMissing(code) == code = Absent \/ code = <<>>

\* handleCodeExecution: `if (!config)`
ConfigMissing(language) == language \notin Languages

\* Array.isArray(config.compileCommand(...)): compile then run
IsCompiled(language) == language \in {"java", "cpp", "c"}

\* a compile step bounded by the whole-request limit
CompileTimeoutIsMax(language) == maxExecutionTime

\* languageConfigs[language].timeout as executeCode reads it
CompileTimeoutOf(language) == compilationTimeout

\* config.timeout.run of a compiled language, else the number config.timeout
RunTimeoutOf(language) ==
    IF IsCompiled(language) THEN executionTimeout ELSE maxExecutionTime

\* executeCode: errors.push(`Failed to install ${dep}: ${err.message}`)
InstallFailure(dep, err) == <<"Failed to install", dep>> \o MessageInTemplate(err)

\* a loop that breaks at the first failed install
InstallLoopStopsOnError(errors) == errors = <<>>

\* executeCode: the for loop goes on to the next dependency whatever
\* the errors collected so far
InstallLoopContinues(errors) == TRUE

\* a check of the collected errors that never throws
InstallErrorsIgnored(errors) == FALSE

\* executeCode: `if (errors.length > 0) throw new Error(errors.join("\n"))`
InstallErrorsFatal(errors) == Len(errors) > 0

\* ------------------------------------------------------ ends of a segment
\* A segment is the synchronous code between two awaits.  st carries the
\* values it computed: the frame h, the files fs, the log procs, the files
\* created, the random names drawn.
Segment(r) ==
    [ h |-> handler[r], fs |-> fs, procs |-> procs[r],
      created |-> created[r], random |-> randomCount ]

\* executeWithTimeout(command, timeout) followed by await
Spawn(r, st, phase, target, timeout) ==
    /\ handler' = [handler EXCEPT ![r] = [st.h EXCEPT !.pc = phase]]
    /\ procs' = [procs EXCEPT ![r] =
                   Append(st.procs, [phase |-> phase, target |-> target,
                                     timeout |-> timeout, status |-> "running",
                                     stdin |-> StdinWritten(phase)])]
    /\ fs' = st.fs
    /\ created' = [created EXCEPT ![r] = st.created]
    /\ randomCount' = st.random
    /\ UNCHANGED <<platform, retryTimers, responses, escaped, cleanupLog>>

\* cleanup(files): the unlinkSync result of every file that exists
cleanup(files, existing, unlink) ==
    [i \in 1..Len(files) |-> IF files[i] \in existing THEN unlink[i] ELSE "absent"]

\* a cleanup whose catch logs EPERM only and rethrows any other error
cleanupRethrowsOtherErrors(results) == "failed" \in Range(results)

\* cleanup: both catch blocks log the error; nothing is thrown to the caller
cleanupThrows(results) == FALSE

\* a handler that answers once more after the try statement
FinishAnswersTwice(r, st, sent, esc) ==
    /\ handler' = [handler EXCEPT ![r] = [st.h EXCEPT !.pc = "done"]]
    /\ responses' = [responses EXCEPT ![r] = @ \o sent \o sent]
    /\ cleanupLog' = [cleanupLog EXCEPT ![r] = Append(@, <<>>)]
    /\ escaped' = [escaped EXCEPT ![r] = esc]
    /\ fs' = st.fs
    /\ procs' = [procs EXCEPT ![r] = st.procs]
    /\ created' = [created EXCEPT ![r] = st.created]
    /\ randomCount' = st.random
    /\ UNCHANGED <<platform, retryTimers>>

\* the handler sends `sent`, runs finally { cleanup(filesToCleanup) }, returns
Finish(r, st, sent, esc) ==
    \E unlink \in [1..Len(st.h.filesToCleanup) -> UnlinkOutcomes] :
        LET files   == st.h.filesToCleanup
            results == cleanup(files, st.fs, unlink)
        IN  /\ fs' = st.fs \ {files[i] : i \in {j \in 1..Len(files) : results[j] = "removed"}}
            /\ retryTimers' = retryTimers \cup
                 {[req |-> r, file |-> files[i]] :
                    i \in {j \in 1..Len(files) : results[j] = "EPERM"}}
            /\ cleanupLog' = [cleanupLog EXCEPT ![r] = Append(@, results)]
            /\ responses' = [responses EXCEPT ![r] = @ \o sent]
            /\ escaped' = [escaped EXCEPT ![r] = esc \/ cleanupThrows(results)]
            /\ handler' = [handler EXCEPT ![r] = [st.h EXCEPT !.pc = "done"]]
            /\ procs' = [procs EXCEPT ![r] = st.procs]
            /\ created' = [created EXCEPT ![r] = st.created]
            /\ randomCount' = st.random
            /\ UNCHANGED platform

\* a catch that answers and returns, with cleanup placed after the try
\* statement instead of in a finally block
HandlerCatchWithoutFinally(r, st, err) ==
    /\ handler' = [handler EXCEPT ![r] = [st.h EXCEPT !.pc = "done"]]
    /\ responses' = [responses EXCEPT ![r] = Append(@, CatchResponse(err))]
    /\ fs' = st.fs
    /\ procs' = [procs EXCEPT ![r] = st.procs]
    /\ created' = [created EXCEPT ![r] = st.created]
    /\ randomCount' = st.random
    /\ UNCHANGED <<platform, retryTimers, escaped, cleanupLog>>

\* a value thrown inside the try block of handleCodeExecution
HandlerCatch(r, st, err) ==
    IF HandlerCatches(err)
    THEN Finish(r, st, <<CatchResponse(err)>>, FALSE)
    ELSE Finish(r, st, <<>>, TRUE)

\* a return before the try block: nothing allocated, no finally
Reject(r, language, code, resp) ==
    /\ handler' = [handler EXCEPT ![r] =
                     [@ EXCEPT !.pc = "done", !.language = language, !.code = code]]
    /\ responses' = [responses EXCEPT ![r] = Append(@, resp)]
    /\ UNCHANGED <<platform, fs, randomCount, retryTimers, procs, escaped,
                   cleanupLog, created>>

\* ------------------------------------------------------------ executeCode
\* Step 2: the compile command of a compiled language, else the run command
RunCommands(r, st) ==
    IF IsCompiled(st.h.language)
    THEN Spawn(r, st, "compile", st.h.filename, CompileTimeoutOf(st.h.language))
    ELSE Spawn(r, st, "run", st.h.filename, RunTimeoutOf(st.h.language))

\* Step 1 up to the first await
executeCode(r, st) ==
    LET d == detectDependencies(st.h.language, st.h.code)
    IN  IF d.threw
        THEN HandlerCatch(r, st, DependencyError(d.error))
        ELSE IF d.value # <<>>
             THEN Spawn(r, [st EXCEPT !.h.dependencies = d.value, !.h.i = 1],
                        "install", d.value[1], installTimeout)
             ELSE RunCommands(r, st)

\* ---------------------------------------------------- handleCodeExecution
\* from the call to the first await (or to the return)
handleCodeExecution(r, language, code, writeOk) ==
    /\ handler[r].pc = "idle"
    /\ UNCHANGED <<lastExit, settled>>
    /\ IF CodeMissing(code)
       THEN Reject(r, language, code, Response(400, "error", <<"No code provided">>))
       ELSE IF ConfigMissing(language)
       THEN Reject(r, language, code, Response(400, "error", <<"Unsupported language:", language>>))
       ELSE
         LET filename == getTempFile(randomCount + 1, language)
             st0 == [Segment(r) EXCEPT
                       !.h.language = language, !.h.code = code,
                       !.h.filename = filename,
                       !.h.filesToCleanup = <<filename>>,
                       !.random = randomCount + 1]
             st1 == [st0 EXCEPT !.fs = @ \cup {filename},
                                !.created = @ \cup {filename}]
         IN  IF ~writeOk
             THEN HandlerCatch(r, st0, ThrownError(<<"ENOSPC: no space left on device, write">>))
             ELSE IF language = "java"
             THEN LET c == detectClassName(code)
                  IN  IF c.threw
                      THEN HandlerCatch(r, st1, c.error)
                      ELSE LET javaFile  == ClassFile(c.value[1], "java")
                               classFile == ClassFile(c.value[1], "class")
                               st2 == [st1 EXCEPT
                                         !.fs = (@ \ {filename}) \cup {javaFile},
                                         !.created = @ \cup {javaFile},
                                         !.h.filename = javaFile,
                                         !.h.filesToCleanup = <<javaFile, classFile>>]
                           IN  executeCode(r, st2)
             ELSE IF language \in {"cpp", "c"}
             THEN LET exeExtension == IF platform = "win32" THEN "exe" ELSE "out"
                      outputExe == getTempFile(randomCount + 2, exeExtension)
                      st2 == [st1 EXCEPT !.h.outputExe = outputExe,
                                         !.random = randomCount + 2]
                  IN  IF platform # "win32"
                      THEN Spawn(r, [st2 EXCEPT !.h.filesToCleanup = Append(@, outputExe),
                                                !.h.direct = TRUE],
                                 "compile", filename, compilationTimeout)
                      ELSE executeCode(r, st2)
             ELSE executeCode(r, st1)

\* app.post("/run-<language>", (req, res) =>
\*     handleCodeExecution(language, req.body.code, res))
runEndpoint(r, language, body, writeOk) ==
    /\ handleCodeExecution(r, language, body.code, writeOk)
    /\ requestBody' = [requestBody EXCEPT ![r] = body]
    /\ UNCHANGED outsideExec

\* the exit of the command the request awaits
Exited(r, phase, o) ==
    [Segment(r) EXCEPT !.procs[Len(procs[r])].status = o.status]

\* the command exited and the promise was left unsettled: the await of the
\* request never continues
Pending(r, st) ==
    /\ handler' = [handler EXCEPT ![r] = [st.h EXCEPT !.pc = "pending"]]
    /\ procs' = [procs EXCEPT ![r] = st.procs]
    /\ UNCHANGED <<platform, fs, randomCount, retryTimers, responses, escaped,
                   cleanupLog, created>>

\* executeCode: one `await config.install(dep)` of the for loop resolves or rejects
InstallExit(r, o) ==
    /\ handler[r].pc = "install"
    /\ lastExit' = [lastExit EXCEPT ![r] = o]
    /\ settled' = [settled EXCEPT ![r] = executeWithTimeout(o)]
    /\ UNCHANGED <<requestBody, outsideExec>>
    /\ LET h   == handler[r]
           dep == h.dependencies[h.i]
           errors == IF ExecFailed(o)
                     THEN Append(h.errors, InstallFailure(dep, RejectValue(o)))
                     ELSE h.errors
           st  == [Exited(r, "install", o) EXCEPT !.h.errors = errors]
       IN  IF ~Settles(o) THEN Pending(r, st)
           ELSE IF h.i < Len(h.dependencies) /\ InstallLoopContinues(errors)
           THEN Spawn(r, [st EXCEPT !.h.i = h.i + 1], "install",
                      h.dependencies[h.i + 1], installTimeout)
           ELSE IF InstallErrorsFatal(errors)
                THEN HandlerCatch(r, st,
                       DependencyError(ThrownError(Join(errors, "\n"))))
                ELSE RunCommands(r, st)

\* the files a successful compile command writes
Artifacts(h) ==
    IF h.language = "java" THEN CompiledClasses(h.code) ELSE {h.outputExe}

\* the await of the compile command resolves or rejects
CompileExit(r, o) ==
    /\ handler[r].pc = "compile"
    /\ lastExit' = [lastExit EXCEPT ![r] = o]
    /\ settled' = [settled EXCEPT ![r] = executeWithTimeout(o)]
    /\ UNCHANGED <<requestBody, outsideExec>>
    /\ LET h  == handler[r]
           st == Exited(r, "compile", o)
       IN  IF ~Settles(o) THEN Pending(r, st)
           ELSE IF ExecFailed(o)
           THEN IF h.direct
                THEN HandlerCatch(r, st, RejectValue(o))
                ELSE HandlerCatch(r, st, ClassifyError(RejectValue(o)))
           ELSE LET st1 == [st EXCEPT !.fs = @ \cup Artifacts(h),
                                      !.created = @ \cup Artifacts(h)]
                IN  IF h.direct
                    THEN Spawn(r, st1, "chmod", h.outputExe, chmodTimeout)
                    ELSE Spawn(r, st1, "run", h.filename, RunTimeoutOf(h.language))

\* handleCodeExecution, non-win32 C/C++: await of `chmod +x`
ChmodExit(r, o) ==
    /\ handler[r].pc = "chmod"
    /\ lastExit' = [lastExit EXCEPT ![r] = o]
    /\ settled' = [settled EXCEPT ![r] = executeWithTimeout(o)]
    /\ UNCHANGED <<requestBody, outsideExec>>
    /\ LET st == Exited(r, "chmod", o)
       IN  IF ~Settles(o) THEN Pending(r, st)
           ELSE IF ExecFailed(o)
           THEN HandlerCatch(r, st, RejectValue(o))
           ELSE Spawn(r, st, "run", handler[r].outputExe, executionTimeout)

\* the await of the run command resolves or rejects
RunExit(r, o) ==
    /\ handler[r].pc = "run"
    /\ lastExit' = [lastExit EXCEPT ![r] = o]
    /\ settled' = [settled EXCEPT ![r] = executeWithTimeout(o)]
    /\ UNCHANGED <<requestBody, outsideExec>>
    /\ LET h  == handler[r]
           st == Exited(r, "run", o)
       IN  IF ~Settles(o) THEN Pending(r, st)
           ELSE IF ~ExecFailed(o)
           THEN Finish(r, st, <<Response(200, "output", ResolveValue(o))>>, FALSE)
           ELSE IF IsCompiled(h.language) /\ ~h.direct
                THEN HandlerCatch(r, st, ClassifyError(RejectValue(o)))
                ELSE HandlerCatch(r, st, RejectValue(o))

\* cleanup: the setTimeout callback retries unlinkSync once, 500 ms later
RetryUnlink(t, ok) ==
    /\ t \in retryTimers
    /\ retryTimers' = retryTimers \ {t}
    /\ fs' = IF ok THEN fs \ {t.file} ELSE fs
    /\ UNCHANGED <<platform, randomCount, handler, procs, lastExit, responses,
                   escaped, cleanupLog, created, requestBody, settled>>
    /\ UNCHANGED outsideExec

\* --------------------------------------------------------- specifications
\* one request handled on its own
Single == {"r1"}

Arrive ==
    \E r \in Single :
        /\ handler[r].pc = "idle"
        /\ \E language \in Languages \cup OtherLanguages, writeOk \in BOOLEAN :
              \E code \in CodesOf(language) :
                  runEndpoint(r, language, [code |-> code, input |-> NoInput], writeOk)

Install == \E r \in Single, o \in ProcOutcomes : InstallExit(r, o)
Compile == \E r \in Single, o \in ProcOutcomes : CompileExit(r, o)
Chmod   == \E r \in Single, o \in ProcOutcomes : ChmodExit(r, o)
Run     == \E r \in Single, o \in ProcOutcomes : RunExit(r, o)
Retry   == \E t \in retryTimers, ok \in BOOLEAN : RetryUnlink(t, ok)

Next == Arrive \/ Install \/ Compile \/ Chmod \/ Run \/ Retry

Spec == Init /\ [][Next]_vars


\* two requests in flight at once, on a few programs and outcomes; their
\* bodies may carry an input field and a program may print a lot
ConcPrograms ==
    { [language |-> "java", code |-> <<[kind |-> "publicclass", name |-> "Main"]>>],
      [language |-> "java", code |-> <<[kind |-> "import", path |-> <<"org", "apache", "Lang">>],
                                       [kind |-> "publicclass", name |-> "Main"]>>],
      [language |-> "c",    code |-> <<[kind |-> "include", delim |-> "angle", header |-> "stdio.h"]>>] }

\* a stretch of output of 6000 bytes
Oversize == "out x 6000 bytes"

ConcInputs == {NoInput, <<"in">>}

ConcOutcomes ==
    { [status |-> "exit0",   stdout |-> <<"out">>,    stderr |-> <<>>],
      [status |-> "exit0",   stdout |-> <<Oversize>>, stderr |-> <<>>],
      [status |-> "nonzero", stdout |-> <<>>,         stderr |-> <<"error:">>] }

ConcArrive ==
    \E r \in Requests :
        /\ handler[r].pc = "idle"
        /\ \E p \in ConcPrograms, input \in ConcInputs :
              runEndpoint(r, p.language, [code |-> p.code, input |-> input], TRUE)

ConcInstall == \E r \in Requests, o \in ConcOutcomes : InstallExit(r, o)
ConcCompile == \E r \in Requests, o \in ConcOutcomes : CompileExit(r, o)
ConcChmod   == \E r \in Requests, o \in ConcOutcomes : ChmodExit(r, o)
ConcRun     == \E r \in Requests, o \in ConcOutcomes : RunExit(r, o)
ConcRetry   == \E t \in retryTimers : RetryUnlink(t, TRUE)

NextConc ==
    ConcArrive \/ ConcInstall \/ ConcCompile \/ ConcChmod \/ ConcRun \/ ConcRetry

SpecConc == Init /\ [][NextConc]_vars

\* one request on a few programs, every command it awaits exiting sooner or
\* later (by itself or killed at its deadline) and its callback being run
LivePrograms ==
    { [language |-> "python",
       code |-> <<[kind |-> "from",   path |-> <<"numpy", "linalg">>],
                  [kind |-> "import", path |-> <<"requests">>]>>],
      [language |-> "javascript",
       code |-> <<[kind |-> "require", scope |-> "", path |-> <<"fs">>]>>],
      [language |-> "java",
       code |-> <<[kind |-> "import", path |-> <<"org", "apache", "Lang">>],
                  [kind |-> "publicclass", name |-> "Main"]>>],
      [language |-> "java", code |-> <<[kind |-> "class", name |-> "Helper"]>>],
      [language |-> "cpp",
       code |-> <<[kind |-> "include", delim |-> "angle", header |-> "iostream"]>>],
      [language |-> "c",
       code |-> <<[kind |-> "include", delim |-> "quote", header |-> "curl/curl.h"]>>] }

LiveArrive ==
    \E r \in Single :
        /\ handler[r].pc = "idle"
        /\ \E p \in LivePrograms, writeOk \in BOOLEAN :
              runEndpoint(r, p.language, [code |-> p.code, input |-> NoInput], writeOk)

NextLive == LiveArrive \/ Install \/ Compile \/ Chmod \/ Run \/ Retry

SpecLive ==
    /\ Init /\ [][NextLive]_vars
    /\ WF_vars(Install) /\ WF_vars(Compile) /\ WF_vars(Chmod) /\ WF_vars(Run)

\* ------------------------------------------------------------ rate limiter
\* `requestCounts.get(ip) || { count: 0, timestamp: now }`
CountOf(ip) ==
    IF requestCounts[ip] = NoCount
    THEN [count |-> 0, timestamp |-> now]
    ELSE requestCounts[ip]

\* `if (now - count.timestamp > 60000)`
WindowExpired(count) == now - count.timestamp > windowMs

\* one more call of next() at instant t
LogPass(log, t) ==
    IF log # <<>> /\ log[Len(log)].at = t
    THEN [log EXCEPT ![Len(log)].n = @ + 1]
    ELSE Append(log, [at |-> t, n |-> 1])

\* the middleware, for one request of client ip
rateLimit(ip) ==
    LET got   == CountOf(ip)
        count == IF WindowExpired(got) THEN [count |-> 0, timestamp |-> now] ELSE got
    IN  /\ IF count.count >= maxRequestsPerWindow
           THEN /\ lastAnswer' = [lastAnswer EXCEPT ![ip] = "429"]
                /\ UNCHANGED <<requestCounts, passLog>>
           ELSE /\ requestCounts' = [requestCounts EXCEPT ![ip] =
                                       [count EXCEPT !.count = @ + 1]]
                /\ passLog' = [passLog EXCEPT ![ip] = LogPass(@, now)]
                /\ lastAnswer' = [lastAnswer EXCEPT ![ip] = "next"]
        /\ UNCHANGED <<execVars, now, socketVars, collabVars>>

\* time passes
Advance(step) ==
    /\ now + step <= MaxClock
    /\ now' = now + step
    /\ UNCHANGED <<execVars, limiterVars, socketVars, collabVars>>

Request == \E ip \in Clients : rateLimit(ip)
Tick    == \E step \in TickSteps : Advance(step)

NextRate == Request \/ Tick

SpecRate == Init /\ [][NextRate]_vars

\* ----------------------------------------------- socket layer of the backend
\* an emit: io.emit ("all"), io.to(x).emit (x), socket.to(room).emit and
\* socket.broadcast.emit (everyone in `to` but the socket `except`)
Emit(event, to, except, payload) ==
    [event |-> event, to |-> to, except |-> except, payload |-> payload]

\* Map.prototype.set on a Map kept in insertion order: an existing key keeps
\* its place and takes the new value
MapSet(map, key, value) ==
    IF \E i \in 1..Len(map) : map[i].key = key
    THEN [i \in 1..Len(map) |-> IF map[i].key = key
                                 THEN [key |-> key, value |-> value] ELSE map[i]]
    ELSE Append(map, [key |-> key, value |-> value])

\* Map.prototype.delete
MapDelete(map, key) == SeqFilter(map, {e \in Range(map) : e.key # key})

\* Map.prototype.get(key)?.socketId
SocketIdOf(map, key) ==
    IF \E i \in 1..Len(map) : map[i].key = key
    THEN (CHOOSE e \in Range(map) : e.key = key).value.socketId
    ELSE Undefined

\* Array.from(onlineUsers.values()).map(u => ({ id: u.userId, name: u.userName }))
OnlineList(map) ==
    [i \in 1..Len(map) |-> [id |-> Undefined, name |-> map[i].value.userName]]

\* io.on("connection")
connection(s) ==
    /\ sockets[s] = "new"
    /\ sockets' = [sockets EXCEPT ![s] = "connected"]
    /\ emitted' = <<>>
    /\ UNCHANGED <<onlineUsers, activeRooms, lastUpdate>>
    /\ UNCHANGED <<execVars, now, limiterVars, collabVars>>

\* socket.on("user_online")
user_online(s, userId, userName) ==
    /\ sockets[s] = "connected"
    /\ onlineUsers' = MapSet(onlineUsers, userId, [socketId |-> s, userName |-> userName])
    /\ emitted' = <<Emit("online_users", "all", Undefined, OnlineList(onlineUsers'))>>
    /\ UNCHANGED <<sockets, activeRooms, lastUpdate>>
    /\ UNCHANGED <<execVars, now, limiterVars, collabVars>>

\* socket.on("send-invite"): to the target user if one is named and online,
\* to nobody if it is named and offline, else to all other sockets
send_invite(s, targetUserId) ==
    /\ sockets[s] = "connected"
    /\ LET senderInfo == SeqFilter(onlineUsers,
                            {e \in Range(onlineUsers) : e.value.socketId = s})
           enrichedData ==
               [senderId |-> s, id |-> now,
                sender |-> IF senderInfo # <<>> THEN senderInfo[1].value.userName
                           ELSE "Anonymous"]
           targetSocketId == SocketIdOf(onlineUsers, targetUserId)
       IN  emitted' =
             IF targetUserId # Undefined
             THEN IF targetSocketId # Undefined
                  THEN <<Emit("receive-invite", targetSocketId, Undefined, enrichedData)>>
                  ELSE <<>>
             ELSE <<Emit("receive-invite", "all", s, enrichedData)>>
    /\ UNCHANGED <<sockets, onlineUsers, activeRooms, lastUpdate>>
    /\ UNCHANGED <<execVars, now, limiterVars, collabVars>>

\* a join that stores the joiner's initialCode in the room every time
RoomAtJoinTakingInitialCode(roomId, problemTitle, initialCode) ==
    IF ~activeRooms[roomId].present
    THEN [present |-> TRUE, users |-> <<>>, problemTitle |-> problemTitle,
          currentCode |-> initialCode]
    ELSE [activeRooms[roomId] EXCEPT !.currentCode = initialCode]

\* join-room: `if (!activeRooms.has(roomId)) activeRooms.set(roomId, {...})`
\* followed by activeRooms.get(roomId)
RoomAtJoin(roomId, problemTitle, initialCode) ==
    IF ~activeRooms[roomId].present
    THEN [present |-> TRUE, users |-> <<>>, problemTitle |-> problemTitle,
          currentCode |-> initialCode]
    ELSE activeRooms[roomId]

\* socket.on("join-room"); socket.join(roomId) puts the socket in the
\* Socket.IO room until it disconnects
join_room(s, roomId, userId, username, problemTitle, initialCode) ==
    /\ sockets[s] = "connected"
    /\ Len(activeRooms[roomId].users) < MaxRoomUsers
    /\ LET got  == RoomAtJoin(roomId, problemTitle, initialCode)
           room == [got EXCEPT !.users =
                      Append(@, [userId |-> userId, username |-> username,
                                 socketId |-> s])]
       IN  /\ activeRooms' = [activeRooms EXCEPT ![roomId] = room]
           /\ emitted' = <<Emit("room-joined", roomId, Undefined,
                                [roomId |-> roomId, username |-> username,
                                 problemTitle |-> problemTitle,
                                 users |-> room.users,
                                 currentCode |-> room.currentCode])>>
    /\ UNCHANGED <<sockets, onlineUsers, lastUpdate>>
    /\ UNCHANGED <<execVars, now, limiterVars, collabVars>>

\* socket.on("accept-invite")
accept_invite(s, senderId, title, roomId) ==
    /\ sockets[s] = "connected"
    /\ emitted' = <<Emit("invite-accepted", senderId, Undefined,
                         [roomId |-> roomId, acceptedBy |-> s, problemTitle |-> title])>>
    /\ UNCHANGED <<sockets, onlineUsers, activeRooms, lastUpdate>>
    /\ UNCHANGED <<execVars, now, limiterVars, collabVars>>

\* socket.on("room-message")
room_message(s, roomId, message, sender) ==
    /\ sockets[s] = "connected"
    /\ emitted' = <<Emit("room-message", roomId, Undefined,
                         [sender |-> sender, message |-> message, timestamp |-> now])>>
    /\ UNCHANGED <<sockets, onlineUsers, activeRooms, lastUpdate>>
    /\ UNCHANGED <<execVars, now, limiterVars, collabVars>>

\* socket.on("code-update")
code_update(s, roomId, code, language) ==
    /\ sockets[s] = "connected"
    /\ IF activeRooms[roomId].present
       THEN /\ activeRooms' = [activeRooms EXCEPT ![roomId].currentCode[language] = code]
            /\ lastUpdate' = [lastUpdate EXCEPT ![roomId][language] = code]
            /\ emitted' = <<Emit("code-update", roomId, s,
                                 [code |-> code, language |-> language])>>
       ELSE /\ emitted' = <<>>
            /\ UNCHANGED <<activeRooms, lastUpdate>>
    /\ UNCHANGED <<sockets, onlineUsers>>
    /\ UNCHANGED <<execVars, now, limiterVars, collabVars>>

\* disconnect, first loop: the first entry of the socket is deleted, then break
FirstEntryOf(map, s) ==
    LET own == {i \in 1..Len(map) : map[i].value.socketId = s}
    IN  IF own = {} THEN Undefined
        ELSE map[CHOOSE i \in own : \A j \in own : i <= j].key

\* a filter that drops the first entry of the socket only
RemoveFirstOfSocket(users, s) ==
    LET own == {i \in 1..Len(users) : users[i].socketId = s}
    IN  IF own = {} THEN users
        ELSE LET k == CHOOSE i \in own : \A j \in own : i <= j
             IN  SubSeq(users, 1, k - 1) \o SubSeq(users, k + 1, Len(users))

\* disconnect: room.users.filter((user) => user.socketId !== socket.id)
RemoveSocket(users, s) ==
    SeqFilter(users, {u \in Range(users) : u.socketId # s})

\* the user-left events of the rooms that lost the socket and keep a user
RECURSIVE UserLeftEvents(_, _, _)
UserLeftEvents(ids, s, disconnectedUserId) ==
    IF ids = {} THEN <<>>
    ELSE LET roomId == CHOOSE x \in ids : TRUE
             before == activeRooms[roomId].users
             after  == RemoveSocket(before, s)
         IN  (IF after # <<>> /\ Len(before) > Len(after)
              THEN <<Emit("user-left", roomId, Undefined,
                          [roomId |-> roomId, userId |-> disconnectedUserId,
                           users |-> after])>>
              ELSE <<>>)
             \o UserLeftEvents(ids \ {roomId}, s, disconnectedUserId)

\* socket.on("disconnect")
disconnect(s) ==
    /\ sockets[s] = "connected"
    /\ sockets' = [sockets EXCEPT ![s] = "disconnected"]
    /\ LET disconnectedUserId == FirstEntryOf(onlineUsers, s)
           present == {roomId \in RoomIds : activeRooms[roomId].present}
           emptied == {roomId \in present :
                         RemoveSocket(activeRooms[roomId].users, s) = <<>>}
       IN  /\ onlineUsers' = IF disconnectedUserId = Undefined THEN onlineUsers
                             ELSE MapDelete(onlineUsers, disconnectedUserId)
           /\ activeRooms' =
                 [roomId \in RoomIds |->
                    IF roomId \notin present \/ roomId \in emptied THEN NoRoom
                    ELSE [activeRooms[roomId] EXCEPT
                            !.users = RemoveSocket(@, s)]]
           /\ lastUpdate' =
                 [roomId \in RoomIds |->
                    IF roomId \in emptied THEN NoInitialCode ELSE lastUpdate[roomId]]
           /\ emitted' =
                 (IF disconnectedUserId = Undefined THEN <<>>
                  ELSE <<Emit("online_users", "all", Undefined, OnlineList(onlineUsers'))>>)
                 \o UserLeftEvents(present, s, disconnectedUserId)
    /\ UNCHANGED <<execVars, now, limiterVars, collabVars>>

ProblemTitles == {"Two Sum"}

Connection == \E s \in SocketIds : connection(s)
UserOnline ==
    \E s \in SocketIds, userId \in UserIds, userName \in UserNames :
        user_online(s, userId, userName)
SendInvite ==
    \E s \in SocketIds, targetUserId \in UserIds \cup {Undefined} :
        send_invite(s, targetUserId)
JoinRoom ==
    \E s \in SocketIds, roomId \in RoomIds, userId \in UserIds,
       username \in UserNames, problemTitle \in ProblemTitles,
       initialCode \in InitialCodes :
        join_room(s, roomId, userId, username, problemTitle, initialCode)
AcceptInvite ==
    \E s \in SocketIds, senderId \in SocketIds, title \in ProblemTitles,
       roomId \in RoomIds :
        accept_invite(s, senderId, title, roomId)
RoomMessage ==
    \E s \in SocketIds, roomId \in RoomIds, sender \in UserNames :
        room_message(s, roomId, "hello", sender)
\* the room whose code is edited
EditedRoomIds == {"roomA"}

JoinEditedRoom ==
    \E s \in SocketIds, roomId \in EditedRoomIds, userId \in UserIds,
       username \in UserNames, problemTitle \in ProblemTitles,
       initialCode \in InitialCodes :
        join_room(s, roomId, userId, username, problemTitle, initialCode)
CodeUpdate ==
    \E s \in SocketIds, roomId \in EditedRoomIds, code \in CodeTexts,
       language \in CodeLanguages :
        code_update(s, roomId, code, language)
Disconnect == \E s \in SocketIds : disconnect(s)

\* the events that bear on onlineUsers, and those that only emit
NextOnline ==
    \/ Connection \/ UserOnline \/ SendInvite \/ AcceptInvite
    \/ RoomMessage \/ Disconnect

SpecOnline == Init /\ [][NextOnline]_vars

\* the events that bear on the users of activeRooms
NextRooms == Connection \/ JoinRoom \/ Disconnect

SpecRooms == Init /\ [][NextRooms]_vars

\* the events that bear on the currentCode of a room
NextCode == Connection \/ JoinEditedRoom \/ CodeUpdate \/ Disconnect

SpecCode == Init /\ [][NextCode]_vars

\* ----------------------------------------------------- collaboration server
\* `room_${inviteId}_${random}`
RoomId(inviteId, random) == [invite |-> inviteId, random |-> random]

\* the roomId field of the join-room and leave-room payloads
CollabRoomIds == {RoomId(0, 1), RoomId(0, 2)}

CollabUserNames == {"ann", "bob"}

\* rooms.has(roomId)
MapHas(map, key) == \E i \in 1..Len(map) : map[i].key = key

\* rooms.get(roomId), of a key the Map has
MapGet(map, key) == (CHOOSE e \in Range(map) : e.key = key).value

\* a look-up by a field the entries of a room do not carry: finds nothing
FindUserByUid(users, s) == 0

\* Array.from(room.users).find((user) => user.socketId === socket.id): the
\* position of the first entry of the socket, 0 for undefined
FindUser(users, s) ==
    LET own == {i \in 1..Len(users) : users[i].socketId = s}
    IN  IF own = {} THEN 0 ELSE CHOOSE i \in own : \A j \in own : i <= j

\* Set.prototype.delete(userToRemove): a Set of objects, in insertion order
SetDelete(users, k) == SubSeq(users, 1, k - 1) \o SubSeq(users, k + 1, Len(users))

\* io.on("connection")
collabConnection(s) ==
    /\ collabSockets[s] = "new"
    /\ collabSockets' = [collabSockets EXCEPT ![s] = "connected"]
    /\ collabEmitted' = <<>>
    /\ UNCHANGED <<rooms, pendingInvites, inviteLog, leftRoom>>
    /\ UNCHANGED <<execVars, now, limiterVars, socketVars>>

\* socket.on("join-room")
collabJoinRoom(s, roomId, username, problemTitle) ==
    /\ collabSockets[s] = "connected"
    /\ LET had   == IF MapHas(rooms, roomId) THEN rooms
                    ELSE MapSet(rooms, roomId,
                                [users |-> <<>>, problemTitle |-> problemTitle,
                                 createdBy |-> s])
           room  == MapGet(had, roomId)
           userInfo == [userId |-> s, username |-> username, socketId |-> s]
           existingUserInRoom == FindUser(room.users, s)
           users == IF existingUserInRoom = 0 THEN Append(room.users, userInfo)
                    ELSE room.users
       IN  /\ rooms' = MapSet(had, roomId, [room EXCEPT !.users = users])
           /\ collabEmitted' =
                 << Emit("room-joined", roomId, Undefined,
                         [roomId |-> roomId, username |-> username,
                          problemTitle |-> room.problemTitle, users |-> users]),
                    Emit("user-joined", roomId, s,
                         [userId |-> s, username |-> username]) >>
    /\ leftRoom' = leftRoom \ {<<s, roomId>>}
    /\ UNCHANGED <<collabSockets, pendingInvites, inviteLog>>
    /\ UNCHANGED <<execVars, now, limiterVars, socketVars>>

\* socket.on("leave-room")
collabLeaveRoom(s, roomId) ==
    /\ collabSockets[s] = "connected"
    /\ IF MapHas(rooms, roomId)
       THEN LET room == MapGet(rooms, roomId)
                userToRemove == FindUser(room.users, s)
            IN  IF userToRemove # 0
                THEN /\ rooms' = MapSet(rooms, roomId,
                                    [room EXCEPT !.users = SetDelete(@, userToRemove)])
                     /\ collabEmitted' =
                           <<Emit("user-left", roomId, Undefined,
                                  [userId |-> s,
                                   username |-> room.users[userToRemove].username])>>
                ELSE /\ collabEmitted' = <<>>
                     /\ UNCHANGED rooms
       ELSE /\ collabEmitted' = <<>>
            /\ UNCHANGED rooms
    /\ leftRoom' = leftRoom \cup {<<s, roomId>>}
    /\ UNCHANGED <<collabSockets, pendingInvites, inviteLog>>
    /\ UNCHANGED <<execVars, now, limiterVars, socketVars>>

\* socket.on("code-update")
collabCodeUpdate(s, roomId, code, language) ==
    /\ collabSockets[s] = "connected"
    /\ collabEmitted' = <<Emit("code-update", roomId, s,
                               [code |-> code, language |-> language])>>
    /\ UNCHANGED <<collabSockets, rooms, pendingInvites, inviteLog, leftRoom>>
    /\ UNCHANGED <<execVars, now, limiterVars, socketVars>>

\* socket.on("send-message")
collabSendMessage(s, roomId, message, username) ==
    /\ collabSockets[s] = "connected"
    /\ collabEmitted' = <<Emit("room-message", roomId, Undefined,
                               [message |-> message, username |-> username,
                                timestamp |-> now])>>
    /\ UNCHANGED <<collabSockets, rooms, pendingInvites, inviteLog, leftRoom>>
    /\ UNCHANGED <<execVars, now, limiterVars, socketVars>>

\* disconnect: the body of rooms.forEach for one room
RoomWithout(entry, s) ==
    LET userToRemove == FindUser(entry.value.users, s)
    IN  IF userToRemove # 0
        THEN [entry EXCEPT !.value.users = SetDelete(@, userToRemove)]
        ELSE entry

\* disconnect: the user-left events, in the order of rooms.forEach
RECURSIVE CollabUserLeft(_, _)
CollabUserLeft(map, s) ==
    IF map = <<>> THEN <<>>
    ELSE LET users == Head(map).value.users
             userToRemove == FindUser(users, s)
         IN  (IF userToRemove # 0
              THEN <<Emit("user-left", Head(map).key, Undefined,
                          [userId |-> s, username |-> users[userToRemove].username])>>
              ELSE <<>>)
             \o CollabUserLeft(Tail(map), s)

\* socket.on("disconnect")
collabDisconnect(s) ==
    /\ collabSockets[s] = "connected"
    /\ collabSockets' = [collabSockets EXCEPT ![s] = "disconnected"]
    /\ rooms' = [i \in 1..Len(rooms) |-> RoomWithout(rooms[i], s)]
    /\ collabEmitted' = CollabUserLeft(rooms, s)
    /\ UNCHANGED <<pendingInvites, inviteLog, leftRoom>>
    /\ UNCHANGED <<execVars, now, limiterVars, socketVars>>

CollabConnection == \E s \in SocketIds : collabConnection(s)
CollabJoinRoom ==
    \E s \in SocketIds, roomId \in CollabRoomIds, username \in CollabUserNames,
       problemTitle \in ProblemTitles :
        collabJoinRoom(s, roomId, username, problemTitle)
CollabLeaveRoom ==
    \E s \in SocketIds, roomId \in CollabRoomIds : collabLeaveRoom(s, roomId)
CollabCodeUpdate ==
    \E s \in SocketIds, roomId \in CollabRoomIds :
        collabCodeUpdate(s, roomId, "print(1)", "python")
CollabSendMessage ==
    \E s \in SocketIds, roomId \in CollabRoomIds :
        collabSendMessage(s, roomId, "hello", "ann")
CollabDisconnect == \E s \in SocketIds : collabDisconnect(s)

NextCollab ==
    \/ CollabConnection \/ CollabJoinRoom \/ CollabLeaveRoom
    \/ CollabCodeUpdate \/ CollabSendMessage \/ CollabDisconnect

SpecCollab == Init /\ [][NextCollab]_vars

\* ------------------------------------------ invites of the collaboration server
\* the values Math.random().toString(36).substr(2, 9) takes
RandomStrings == {1, 2}

\* the invites one behaviour creates
MaxInvites == 2

\* title || invite.title
TitleOr(title, other) == IF title = Undefined THEN other ELSE title

\* socket.on("send-invite"): inviteId is Date.now(); the timestamps of the
\* records are left out
collabSendInvite(s, title, random) ==
    /\ collabSockets[s] = "connected"
    /\ Len(SeqFilter(inviteLog, {e \in Range(inviteLog) : e.kind = "created"}))
          < MaxInvites
    /\ LET inviteId == now
           roomId   == RoomId(inviteId, random)
           enrichedData == [title |-> title, senderId |-> s, id |-> inviteId,
                            roomId |-> roomId]
           newRoom  == [users |-> <<>>, problemTitle |-> title, createdBy |-> s]
       IN  /\ rooms' = MapSet(rooms, roomId, newRoom)
           /\ pendingInvites' =
                 MapSet(pendingInvites, inviteId,
                        [title |-> title, senderId |-> s, id |-> inviteId,
                         roomId |-> roomId, status |-> "pending"])
           /\ collabEmitted' = <<Emit("receive-invite", "all", s, enrichedData)>>
           /\ inviteLog' = Append(inviteLog,
                                  [kind |-> "created", id |-> inviteId,
                                   senderId |-> s, roomId |-> roomId])
    /\ UNCHANGED <<collabSockets, leftRoom>>
    /\ UNCHANGED <<execVars, now, limiterVars, socketVars>>

\* socket.on("accept-invite")
collabAcceptInvite(s, inviteId, senderId, title) ==
    /\ collabSockets[s] = "connected"
    /\ IF MapHas(pendingInvites, inviteId)
       THEN LET invite == MapGet(pendingInvites, inviteId)
                roomId == invite.roomId
            IN  /\ rooms' =
                      IF MapHas(rooms, roomId) THEN rooms
                      ELSE MapSet(rooms, roomId,
                                  [users |-> <<>>,
                                   problemTitle |-> TitleOr(title, invite.title),
                                   createdBy |-> invite.senderId])
                /\ collabEmitted' =
                      <<Emit("invite-accepted", senderId, Undefined,
                             [roomId |-> roomId, acceptedBy |-> s,
                              problemTitle |-> TitleOr(title, invite.title)])>>
                /\ pendingInvites' = MapDelete(pendingInvites, inviteId)
                /\ inviteLog' = Append(inviteLog,
                                       [kind |-> "accepted", id |-> inviteId,
                                        senderId |-> senderId, roomId |-> roomId])
       ELSE /\ collabEmitted' = <<>>
            /\ UNCHANGED <<rooms, pendingInvites, inviteLog>>
    /\ UNCHANGED <<collabSockets, leftRoom>>
    /\ UNCHANGED <<execVars, now, limiterVars, socketVars>>

\* the inviteId field of an accept-invite payload: an id some receive-invite
\* event carried, or one no invite has
AcceptableIds == {e.id : e \in Range(inviteLog)} \cup {0 - 1}

CollabSendInvite ==
    \E s \in SocketIds, title \in ProblemTitles, random \in RandomStrings :
        collabSendInvite(s, title, random)
CollabAcceptInvite ==
    \E s \in SocketIds, inviteId \in AcceptableIds, senderId \in SocketIds,
       title \in ProblemTitles \cup {Undefined} :
        collabAcceptInvite(s, inviteId, senderId, title)

\* time passes between two events of the collaboration server
InviteTick == Advance(30000)

NextInvite ==
    CollabConnection \/ CollabSendInvite \/ CollabAcceptInvite \/ InviteTick

SpecInvite == Init /\ [][NextInvite]_vars

\* ------------------------------------------------------- claim vocabulary
Done(r)     == handler[r].pc = "done"
InFlight(r) == handler[r].pc \notin {"idle", "done"}

\* the request passed both validation checks of handleCodeExecution
Validated(r) ==
    /\ handler[r].pc # "idle"
    /\ handler[r].code # Absent /\ handler[r].code # <<>>
    /\ handler[r].language \in {"python", "javascript", "java", "cpp", "c"}

CompiledLanguage(r) == handler[r].language \in {"java", "cpp", "c"}

\* positions in the log of the commands of a phase
Spawned(r, phase) == {i \in 1..Len(procs[r]) : procs[r][i].phase = phase}

\* the text of the one response of a finished request
Output(r) == responses[r][1].body

\* what the process runner captured from the last command that failed
Captured(r) ==
    IF lastExit[r].stderr # <<>> THEN lastExit[r].stderr
    ELSE IF lastExit[r].stdout # <<>> THEN lastExit[r].stdout
    ELSE <<"Command failed">>

IsSuffix(t, s) == Len(t) <= Len(s) /\ SubSeq(s, Len(s) - Len(t) + 1, Len(s)) = t

\* every unlink the request's cleanup attempted removed the file
RemovalsDone(r) ==
    \A k \in 1..Len(cleanupLog[r]) :
        \A i \in 1..Len(cleanupLog[r][k]) : cleanupLog[r][k][i] \in {"removed", "absent"}


\* ------------------------------------------------------------------ claims

\* C1: once the handler of a validated request has returned, and every
\* removal its cleanup attempted succeeded, none of the files created for the
\* request (temp source, renamed Java source, executable, class files)
\* exists any more.
C1_CreatedFilesGoneOnReturn ==
    \A r \in Requests :
        (Done(r) /\ Validated(r) /\ RemovalsDone(r)) => created[r] \cap fs = {}

\* a header of the source that is not in the language's standard-header list
ForbiddenHeaders(r) ==
    {s.header : s \in {x \in Range(handler[r].code) : x.kind = "include"}}
        \ (IF handler[r].language = "c" THEN cStdHeaders ELSE cppStdHeaders)

\* C2: a C or C++ request whose source includes a header outside the
\* allowlist never has a compile command spawned, and once its source file
\* was written it ends in a Dependency Error that names the header.
C2_ForbiddenHeaderStopsBeforeCompile ==
    \A r \in Requests :
        (Validated(r) /\ handler[r].language \in {"c", "cpp"}
                      /\ ForbiddenHeaders(r) # {})
        => /\ Spawned(r, "compile") = {}
           /\ (Done(r) /\ created[r] # {})
              => /\ Len(responses[r]) = 1
                 /\ Output(r)[1] = "Dependency Error:"
                 /\ ForbiddenHeaders(r) \subseteq Range(Output(r))

\* C3: for a compiled-language request every run command in the log comes
\* after a compile command that exited with status 0, and no run command is
\* in the log when the compile command failed or timed out.
C3_RunOnlyAfterCompileExit0 ==
    \A r \in Requests :
        CompiledLanguage(r) =>
            /\ \A i \in Spawned(r, "run") :
                  \E j \in Spawned(r, "compile") : j < i /\ procs[r][j].status = "exit0"
            /\ (\E j \in Spawned(r, "compile") : procs[r][j].status \in {"nonzero", "timeout"})
                  => Spawned(r, "run") = {}

\* C3 witness: a compiled request whose run command was spawned
C3_Witness ==
    \E r \in Requests :
        /\ CompiledLanguage(r) /\ Spawned(r, "run") # {}
        /\ \E j \in Spawned(r, "compile") : procs[r][j].status = "exit0"

\* C4: when the compile command of a C or C++ request exits non-zero after
\* writing a diagnostic with the "error:" marker, the output of the response
\* ends with that captured text and is not the generic message.
C4_CompileFailureShowsDiagnostic ==
    \A r \in Requests :
        (/\ Done(r) /\ handler[r].language \in {"c", "cpp"}
         /\ \E j \in Spawned(r, "compile") : procs[r][j].status = "nonzero"
         /\ "error:" \in Range(lastExit[r].stderr))
        => /\ Len(responses[r]) = 1
           /\ Output(r) # UnknownError
           /\ IsSuffix(Captured(r), Output(r))

\* C5: no exception leaves handleCodeExecution, and a validated request that
\* has returned was answered with exactly one response of shape {output}.
C5_FailuresAnsweredAsOutput ==
    \A r \in Requests :
        /\ ~escaped[r]
        /\ (Done(r) /\ Validated(r))
           => /\ Len(responses[r]) = 1
              /\ responses[r][1].field = "output"

\* C5 witness: a request that failed in a command (install, compile or run)
\* and has been answered
C5_Witness ==
    \E r \in Requests :
        /\ Done(r) /\ Validated(r)
        /\ lastExit[r].status \in {"nonzero", "timeout"}
        /\ Len(responses[r]) = 1

\* C6: a request without code, with empty code or with an unsupported
\* language is finished at once with a single client-error response; it has
\* no file, no process and no cleanup.
C6_InvalidRequestRejectedAtOnce ==
    \A r \in Requests :
        (/\ handler[r].pc # "idle"
         /\ \/ handler[r].code = Absent
            \/ handler[r].code = <<>>
            \/ handler[r].language \notin {"python", "javascript", "java", "cpp", "c"})
        => /\ Done(r)
           /\ Len(responses[r]) = 1
           /\ responses[r][1].status = 400
           /\ responses[r][1].field = "error"
           /\ created[r] = {}
           /\ handler[r].filesToCleanup = <<>>
           /\ procs[r] = <<>>
           /\ cleanupLog[r] = <<>>

\* C6 witness: a request with empty code in a supported language was rejected
C6_Witness ==
    \E r \in Requests :
        /\ Done(r) /\ handler[r].code = <<>> /\ handler[r].language = "python"
        /\ Len(responses[r]) = 1

\* C7: when the run command of a compiled-language request failed after the
\* compile command succeeded, the response is labelled Runtime Error, not
\* Compilation Error.
C7_RunFailureIsRuntimeError ==
    \A r \in Requests :
        (/\ Done(r) /\ CompiledLanguage(r)
         /\ \E i \in Spawned(r, "run") : procs[r][i].status \in {"nonzero", "timeout"})
        => /\ Len(responses[r]) = 1
           /\ Output(r)[1] = "Runtime Error:"

\* C8: when the compile command of a compiled-language request exits
\* non-zero, the response is labelled Compilation Error if the captured text
\* contains "error:" and Runtime Error if it does not.
C8_CompileFailureLabel ==
    \A r \in Requests :
        (/\ Done(r) /\ CompiledLanguage(r)
         /\ \E j \in Spawned(r, "compile") : procs[r][j].status = "nonzero")
        => /\ Len(responses[r]) = 1
           /\ Output(r)[1] = (IF "error:" \in Range(Captured(r))
                              THEN "Compilation Error:" ELSE "Runtime Error:")

\* the paths a request writes, compiles into and deletes
PathsOf(r) ==
    ({handler[r].filename, handler[r].outputExe} \cup Range(handler[r].filesToCleanup))
        \ {NoFile}

\* C9: two requests in flight at the same time use disjoint file paths.
C9_PathsDisjoint ==
    \A r, q \in Requests :
        (r # q /\ InFlight(r) /\ InFlight(q)) => PathsOf(r) \cap PathsOf(q) = {}

\* positions of the install commands that failed
FailedInstalls(r) ==
    {i \in Spawned(r, "install") : procs[r][i].status \in {"nonzero", "timeout"}}

\* C10: a finished Python, JavaScript or Java request with several detected
\* dependencies had an install spawned for each of them, in order; if an
\* install failed, its one response is a Dependency Error with one
\* "Failed to install" entry per failed install, naming the dependency.
C10_EveryDependencyAttempted ==
    \A r \in Requests :
        (/\ Done(r) /\ handler[r].language \in {"python", "javascript", "java"}
         /\ Len(handler[r].dependencies) >= 2)
        => /\ Cardinality(Spawned(r, "install")) = Len(handler[r].dependencies)
           /\ \A i \in 1..Len(handler[r].dependencies) :
                 procs[r][i].phase = "install"
                 /\ procs[r][i].target = handler[r].dependencies[i]
           /\ FailedInstalls(r) # {}
              => /\ Len(responses[r]) = 1
                 /\ Output(r)[1] = "Dependency Error:"
                 /\ Count(Output(r), "Failed to install") = Cardinality(FailedInstalls(r))
                 /\ \A i \in FailedInstalls(r) : procs[r][i].target \in Range(Output(r))

\* C10 witness: the first install failed, the second was still attempted,
\* and the request ended in a Dependency Error
C10_Witness ==
    \E r \in Requests :
        /\ Done(r) /\ Len(handler[r].dependencies) >= 2
        /\ procs[r][1].phase = "install" /\ procs[r][1].status = "nonzero"
        /\ procs[r][2].phase = "install" /\ procs[r][2].status # "running"
        /\ Len(responses[r]) = 1 /\ Output(r)[1] = "Dependency Error:"


\* C11: once an install of a Python, JavaScript or Java request has failed,
\* no compile command and no run command is ever spawned for it, and when
\* it has returned its response is a Dependency Error.
C11_DependencyFailureIsTerminal ==
    \A r \in Requests :
        (handler[r].language \in {"python", "javascript", "java"}
             /\ FailedInstalls(r) # {})
        => /\ Spawned(r, "compile") = {}
           /\ Spawned(r, "run") = {}
           /\ Done(r) => (Len(responses[r]) = 1 /\ Output(r)[1] = "Dependency Error:")

\* C11 witness: a request that has returned after a failed install that was
\* followed by a successful one
C11_Witness ==
    \E r \in Requests :
        /\ Done(r) /\ Len(procs[r]) = 2
        /\ procs[r][1].phase = "install" /\ procs[r][1].status = "timeout"
        /\ procs[r][2].phase = "install" /\ procs[r][2].status = "exit0"

\* the statements of a Java source that declare a class of the given kinds
ClassDecls(r, kinds) ==
    {i \in 1..Len(handler[r].code) : handler[r].code[i].kind \in kinds}

First(S) == CHOOSE i \in S : \A j \in S : i <= j

\* the class name the source file is to be named after: the public class,
\* else the first declared class, else Main
FallbackClassName(r) ==
    IF ClassDecls(r, {"publicclass"}) # {}
    THEN handler[r].code[First(ClassDecls(r, {"publicclass"}))].name
    ELSE IF ClassDecls(r, {"class"}) # {}
         THEN handler[r].code[First(ClassDecls(r, {"class"}))].name
         ELSE "Main"

\* a validated Java request whose source file was written
JavaWritten(r) ==
    Validated(r) /\ handler[r].language = "java" /\ created[r] # {}

ImportRoots(r) ==
    {s.path[1] : s \in {x \in Range(handler[r].code) : x.kind = "import"}}

\* C13: a Java request whose imports all name packages under java, javax,
\* jakarta or javafx has no install spawned, and when its dependencies are
\* resolved the compile command is spawned.
C13_StandardJavaImportsNeedNoInstall ==
    \A r \in Requests :
        (/\ JavaWritten(r) /\ ClassDecls(r, {"publicclass"}) # {}
         /\ ImportRoots(r) # {}
         /\ ImportRoots(r) \subseteq {"java", "javax", "jakarta", "javafx"})
        => /\ Spawned(r, "install") = {}
           /\ Spawned(r, "compile") # {}


\* C14: the dependencies detected for a request form a set: no package name
\* appears twice in the list.
C14_DependenciesHaveNoDuplicates ==
    \A r \in Requests :
        Cardinality(Range(handler[r].dependencies)) = Len(handler[r].dependencies)

\* C15: cleanup has run exactly once for every validated request that has
\* returned, over all the files it tracks, and not at all before the return.
C15_CleanupExactlyOnce ==
    \A r \in Requests :
        /\ (Done(r) /\ Validated(r))
              => /\ Len(cleanupLog[r]) = 1
                 /\ Len(cleanupLog[r][1]) = Len(handler[r].filesToCleanup)
        /\ ~Done(r) => cleanupLog[r] = <<>>

\* C15 witness: a request that returned through the catch block after a
\* command timed out, with its one cleanup
C15_Witness ==
    \E r \in Requests :
        /\ Done(r) /\ Validated(r) /\ lastExit[r].status = "timeout"
        /\ Len(cleanupLog[r]) = 1

\* an unlink of the request's cleanup failed
RemovalFailed(r) ==
    \E k \in 1..Len(cleanupLog[r]) :
        \E i \in 1..Len(cleanupLog[r][k]) : cleanupLog[r][k][i] \in {"EPERM", "failed"}

\* the last command of the request was its run command and exited with 0
RunSucceeded(r) ==
    /\ procs[r] # <<>>
    /\ procs[r][Len(procs[r])].phase = "run"
    /\ procs[r][Len(procs[r])].status = "exit0"

\* C16: when an unlink of cleanup failed, no exception left the handler and
\* the one response is the one the request had earned: the stdout of a run
\* that exited with 0, an error text otherwise.
C16_CleanupFailureSwallowed ==
    \A r \in Requests :
        (Done(r) /\ RemovalFailed(r))
        => /\ ~escaped[r]
           /\ Len(responses[r]) = 1
           /\ responses[r][1].field = "output"
           /\ IF RunSucceeded(r)
              THEN Output(r) = lastExit[r].stdout
              ELSE Output(r) # <<>>

\* C16 witness: the run succeeded, one unlink failed outright and one with
\* EPERM
C16_Witness ==
    \E r \in Requests :
        /\ Done(r) /\ RunSucceeded(r) /\ lastExit[r].stdout # <<>>
        /\ Len(cleanupLog[r]) = 1
        /\ "failed" \in Range(cleanupLog[r][1])
        /\ "EPERM" \in Range(cleanupLog[r][1])


\* C17: when the run command exited with status 0, the output of the
\* response is the captured stdout, or the captured stderr when stdout is
\* empty.
C17_SuccessOutputIsStdoutOrStderr ==
    \A r \in Requests :
        (Done(r) /\ RunSucceeded(r))
        => /\ Len(responses[r]) = 1
           /\ Output(r) = (IF lastExit[r].stdout # <<>>
                           THEN lastExit[r].stdout ELSE lastExit[r].stderr)

\* the last command failed after writing to both of its streams
FailedWithBothStreams(r) ==
    /\ settled[r].rejected
    /\ lastExit[r].stdout # <<>>
    /\ lastExit[r].stderr # <<>>

TruncationMarker == "...[truncated]"

\* C19: the output of a request whose program printed more than the
\* ceiling does not hold the whole stretch and carries the truncation
\* marker.
C19_LongOutputTruncated ==
    \A r \in Requests :
        (Done(r) /\ RunSucceeded(r) /\ Oversize \in Range(lastExit[r].stdout))
        => /\ Len(responses[r]) = 1
           /\ Oversize \notin Range(Output(r))
           /\ TruncationMarker \in Range(Output(r))

\* C20: when the body of a request has a non-empty input field, that text
\* is what is written to the standard input of its run command.
C20_InputWrittenToStdin ==
    \A r \in Requests :
        requestBody[r].input # <<>>
        => \A i \in Spawned(r, "run") : procs[r][i].stdin = requestBody[r].input

\* C21: a C or C++ request never has an install command spawned and never
\* holds a detected dependency; dependency detection on its source either
\* throws the "Unsupported headers:" error naming every non-standard header
\* or returns the empty list.
C21_NoInstallForCAndCpp ==
    \A r \in Requests :
        (Validated(r) /\ handler[r].language \in {"c", "cpp"})
        => /\ Spawned(r, "install") = {}
           /\ handler[r].dependencies = <<>>
           /\ LET d == detectDependencies(handler[r].language, handler[r].code)
              IN  IF d.threw
                  THEN /\ d.error.text[1] = "Unsupported headers:"
                       /\ ForbiddenHeaders(r) # {}
                       /\ ForbiddenHeaders(r) \subseteq Range(d.error.text)
                  ELSE d.value = <<>>

\* C21 witness: a C request with a non-standard header was answered through
\* executeCode with the Dependency Error, and no command was spawned
C21_Witness ==
    \E r \in Requests :
        /\ Done(r) /\ handler[r].language = "c" /\ ~handler[r].direct
        /\ ForbiddenHeaders(r) # {} /\ procs[r] = <<>>
        /\ Len(responses[r]) = 1 /\ Output(r)[1] = "Dependency Error:"

\* the deadline of a phase: install, compile, chmod, run
PhaseDeadline(phase, language) ==
    CASE phase = "install" -> 60000
      [] phase = "compile" -> 5000
      [] phase = "chmod"   -> 1000
      [] phase = "run"     -> IF language \in {"python", "javascript"}
                              THEN 10000 ELSE 3000

\* C22: every command in the log of a request was spawned with the deadline
\* of its own phase, whatever the commands before it did: 60 s for an
\* install, 5 s for a compile, 3 s for the run of a compiled language and
\* the 10 s override for a Python or JavaScript run (1 s for the chmod step
\* of the direct C/C++ path).
C22_DeadlinePerPhase ==
    \A r \in Requests :
        \A i \in 1..Len(procs[r]) :
            /\ procs[r][i].timeout = PhaseDeadline(procs[r][i].phase, handler[r].language)
            /\ procs[r][i].phase = "run" => procs[r][i].timeout <= 10000

\* C22 witness: a request that went through install, compile and run, the
\* run spawned with the 3 s deadline
C22_Witness ==
    \E r \in Requests :
        /\ Len(procs[r]) = 3
        /\ procs[r][1].phase = "install" /\ procs[r][1].status = "exit0"
        /\ procs[r][2].phase = "compile" /\ procs[r][2].status = "exit0"
        /\ procs[r][3].phase = "run" /\ procs[r][3].timeout = 3000

\* C23: every validated request eventually has returned from its handler
\* with its response sent, provided every command it awaits exits.
C23_ValidatedRequestTerminates ==
    \A r \in Single :
        Validated(r) ~> (Done(r) /\ Len(responses[r]) = 1)

\* C23 witness: a request that awaited three commands or more, the last one
\* killed at its deadline, and was answered
C23_Witness ==
    \E r \in Single :
        /\ Done(r) /\ Validated(r) /\ Len(procs[r]) >= 3
        /\ procs[r][Len(procs[r])].status = "timeout"
        /\ Len(responses[r]) = 1

\* C24: a request whose handler has returned was sent exactly one response,
\* and a request whose handler has not returned was sent none yet.
C24_ExactlyOneResponse ==
    \A r \in Requests :
        /\ Done(r) => Len(responses[r]) = 1
        /\ ~Done(r) => Len(responses[r]) = 0

\* C24 witness: a C or C++ request answered by the `return res.json` inside
\* the try block, after its compile, chmod and run commands
C24_Witness ==
    \E r \in Requests :
        /\ Done(r) /\ Len(responses[r]) = 1
        /\ handler[r].direct /\ Len(procs[r]) = 3 /\ lastExit[r].status = "exit0"

\* the calls of next() for a client in the 60 s that start at instant t
RECURSIVE PassedWithin(_, _)
PassedWithin(log, t) ==
    IF log = <<>> THEN 0
    ELSE (IF t <= Head(log).at /\ Head(log).at < t + 60000 THEN Head(log).n ELSE 0)
         + PassedWithin(Tail(log), t)

\* C25: for each client at most 30 requests were passed on in any span of
\* 60 s, and a request is answered 429 only when 30 were already counted.
C25_AtMost30PerMinute ==
    \A ip \in Clients :
        /\ \A i \in 1..Len(passLog[ip]) :
              PassedWithin(passLog[ip], passLog[ip][i].at) <= 30
        /\ lastAnswer[ip] = "429" => requestCounts[ip].count >= 30

\* C26: no entry of onlineUsers refers to a socket whose disconnect handler
\* has run.
C26_NoOnlineEntryAfterDisconnect ==
    \A i \in 1..Len(onlineUsers) :
        sockets[onlineUsers[i].value.socketId] # "disconnected"

\* C27: every room in activeRooms has at least one user, and every user
\* entry of every room refers to a connected socket.
C27_RoomsNonEmptyAndConnected ==
    \A roomId \in RoomIds :
        activeRooms[roomId].present
        => /\ Len(activeRooms[roomId].users) >= 1
           /\ \A i \in 1..Len(activeRooms[roomId].users) :
                 sockets[activeRooms[roomId].users[i].socketId] = "connected"

\* C27 witness: a socket of a room has disconnected and the room lives on
\* with the other socket, which was told so
C27_Witness ==
    \E roomId \in RoomIds, s \in SocketIds :
        /\ sockets[s] = "disconnected"
        /\ activeRooms[roomId].present
        /\ \E e \in Range(emitted) :
              /\ e.event = "user-left" /\ e.to = roomId
              /\ Len(e.payload.users) = 1

\* C28: while a room is in activeRooms, the code it stores for a language
\* is the one of the last code-update for that language, and a room-joined
\* event for the room carries it as currentCode, whatever initialCode the
\* joiner sent.
C28_LastCodeUpdateWins ==
    \A roomId \in RoomIds, language \in CodeLanguages :
        (activeRooms[roomId].present /\ lastUpdate[roomId][language] # Undefined)
        => /\ activeRooms[roomId].currentCode[language] = lastUpdate[roomId][language]
           /\ \A e \in Range(emitted) :
                 (e.event = "room-joined" /\ e.to = roomId)
                 => e.payload.currentCode[language] = lastUpdate[roomId][language]

\* C28 witness: a room-joined event after a code-update for python
C28_Witness ==
    \E roomId \in RoomIds :
        /\ activeRooms[roomId].present
        /\ lastUpdate[roomId]["python"] = "print(2)"
        /\ \E e \in Range(emitted) :
              /\ e.event = "room-joined" /\ e.to = roomId
              /\ Len(e.payload.users) >= 2

\* C29: the users list of a room holds at most one entry per socket id.
C29_OneEntryPerSocket ==
    \A roomId \in RoomIds :
        \A i, j \in 1..Len(activeRooms[roomId].users) :
            i # j => activeRooms[roomId].users[i].socketId
                       # activeRooms[roomId].users[j].socketId

\* C30: in the collaboration server the users of a room have pairwise
\* different socket ids, and none of them belongs to a socket that has
\* disconnected or whose last event for the room was leave-room.
C30_CollabUsersUniqueAndPresent ==
    \A k \in 1..Len(rooms) :
        LET users == rooms[k].value.users
        IN  /\ \A i, j \in 1..Len(users) :
                  i # j => users[i].socketId # users[j].socketId
            /\ \A i \in 1..Len(users) :
                  /\ collabSockets[users[i].socketId] = "connected"
                  /\ <<users[i].socketId, rooms[k].key>> \notin leftRoom

\* C30 witness: a room from which one socket was removed by leave-room and
\* which keeps the entry of the other socket
C30_Witness ==
    \E k \in 1..Len(rooms), s \in SocketIds :
        /\ <<s, rooms[k].key>> \in leftRoom
        /\ Len(rooms[k].value.users) = 1
        /\ rooms[k].value.users[1].socketId # s
        /\ \E e \in Range(collabEmitted) :
              e.event = "user-left" /\ e.to = rooms[k].key /\ e.payload.userId = s

\* the entries of inviteLog that follow entry i and are invite-accepted events
\* of the invite id of entry i
AcceptancesOf(i) ==
    {j \in (i + 1)..Len(inviteLog) :
        inviteLog[j].kind = "accepted" /\ inviteLog[j].id = inviteLog[i].id}

\* C31: in the collaboration server, for each invite created by send-invite,
\* invite-accepted is emitted to the sender at most once over any sequence of
\* accept-invite events, the invite is no longer pending after its first
\* acceptance, and the room id announced is the one created for that invite.
C31_InviteAcceptedOnceForItsRoom ==
    \A i \in 1..Len(inviteLog) :
        inviteLog[i].kind = "created" =>
            /\ \A j, k \in AcceptancesOf(i) :
                  (/\ inviteLog[j].senderId = inviteLog[i].senderId
                   /\ inviteLog[k].senderId = inviteLog[i].senderId) => j = k
            /\ \A j \in AcceptancesOf(i) :
                  (\A k \in (j + 1)..Len(inviteLog) :
                      ~(inviteLog[k].kind = "created"
                        /\ inviteLog[k].id = inviteLog[i].id))
                  => ~MapHas(pendingInvites, inviteLog[i].id)
            /\ \A j \in AcceptancesOf(i) :
                  inviteLog[j].roomId = inviteLog[i].roomId

=============================================================================
